---- MODULE Spec2Model ----
(***************************************************************************)
(* Model of the close/error semantics of the websockets library:           *)
(*   - websockets/exceptions.py : CLOSE_CODES, format_close,               *)
(*     ConnectionClosed, AbortHandshake and the exception hierarchy;       *)
(*   - websockets/py36/protocol.py : the asynchronous message iterator     *)
(*     __aiter__ of WebSocketCommonProtocol.                               *)
(* The connection itself (websockets/protocol.py) and the header container *)
(* (websockets/http.py) are modelled from the specification, sections 4.5, *)
(* 5 and 6.                                                                *)
(***************************************************************************)
EXTENDS Integers, Sequences, FiniteSets, TLC

(***************************************************************************)
(* Bounds of the model.                                                    *)
(***************************************************************************)
MaxMsgs == 3        \* messages the peer delivers over a connection's life
MaxExtraNext == 2   \* __anext__ calls made after the iterator has ended
MaxCode == 5200     \* close codes 0..MaxCode are rendered by format_close
MaxHeaders == 2     \* header entries passed to AbortHandshake
MaxBody == 2        \* bytes of the body passed to AbortHandshake

None == [cls |-> "None"]

Messages == {"m1", "m2"}
Reasons == {"", "bye"}
FormatReasons == {"", "too big", "bye"}
\* close codes exchanged in a closing handshake of the model
WireCodes == {1000, 1001, 1002, 1011, 3000, 4000}

VARIABLES
  state,        \* ConnectionState: "OPEN", "CLOSING" or "CLOSED"
  close,        \* None, or [code, reason]: the connection's close code/reason
  inbox,        \* messages received from the peer, not yet read
  delivered,    \* number of messages the peer has delivered so far
  visited,      \* history: the connection states entered, in order
  last,         \* the last direct send()/recv() call: where made and outcome
  it_pc,        \* iterator: "running", "done" (returned) or "raised"
  yielded,      \* iterator: the messages yielded to the consumer, in order
  recv_log,     \* history: the messages recv() returned to the iterator
  recv_calls,   \* history: number of recv() calls the iterator made
  recv_exc,     \* history: the exception recv() raised into the iterator
  it_exc,       \* the exception the iterator surfaced to its consumer
  extra_next,   \* __anext__ calls made after the iterator ended
  fmt,          \* a format_close call: its arguments and its result
  abort         \* an AbortHandshake construction: arguments and exception

conn_vars == <<state, close, inbox, delivered, visited>>
iter_vars == <<it_pc, yielded, recv_log, recv_calls, recv_exc, it_exc, extra_next>>
pure_vars == <<fmt, abort>>
vars == <<state, close, inbox, delivered, visited, last, it_pc, yielded,
          recv_log, recv_calls, recv_exc, it_exc, extra_next, fmt, abort>>

(***************************************************************************)
(* Text rendering: "{}".format(n) of an integer.                           *)
(***************************************************************************)
DigitChar(d) ==
  CASE d = 0 -> "0" [] d = 1 -> "1" [] d = 2 -> "2" [] d = 3 -> "3"
    [] d = 4 -> "4" [] d = 5 -> "5" [] d = 6 -> "6" [] d = 7 -> "7"
    [] d = 8 -> "8" [] d = 9 -> "9"

RECURSIVE FormatNat(_)
FormatNat(n) ==
  IF n < 10 THEN DigitChar(n) ELSE FormatNat(n \div 10) \o DigitChar(n % 10)

FormatInt(n) ==
  IF n < 0 THEN "-" \o FormatNat(0 - n) ELSE FormatNat(n)

(***************************************************************************)
(* exceptions.py: the close-code registry and format_close.                *)
(***************************************************************************)
CLOSE_CODES_reserved ==
  [c \in {1000, 1001, 1002, 1003, 1004, 1005, 1006, 1007, 1008, 1009, 1010,
          1011, 1015} |->
    CASE c = 1000 -> "OK"
      [] c = 1001 -> "going away"
      [] c = 1002 -> "protocol error"
      [] c = 1003 -> "unsupported type"
      [] c = 1004 -> "reserved"
      [] c = 1005 -> "no status code [internal]"
      [] c = 1006 -> "connection closed abnormally [internal]"
      [] c = 1007 -> "invalid data"
      [] c = 1008 -> "policy violation"
      [] c = 1009 -> "message too big"
      [] c = 1010 -> "extension required"
      [] c = 1011 -> "unexpected error"
      [] c = 1015 -> "TLS failure [internal]"]

CLOSE_CODES ==
  [c \in {1000, 1001, 1002, 1003, 1005, 1006, 1007, 1008, 1009, 1010, 1011,
          1015} |->
    CASE c = 1000 -> "OK"
      [] c = 1001 -> "going away"
      [] c = 1002 -> "protocol error"
      [] c = 1003 -> "unsupported type"
      [] c = 1005 -> "no status code [internal]"
      [] c = 1006 -> "connection closed abnormally [internal]"
      [] c = 1007 -> "invalid data"
      [] c = 1008 -> "policy violation"
      [] c = 1009 -> "message too big"
      [] c = 1010 -> "extension required"
      [] c = 1011 -> "unexpected error"
      [] c = 1015 -> "TLS failure [internal]"]

\* CLOSE_CODES.get(code, "unknown")
CloseCodesGet(code) ==
  IF code \in DOMAIN CLOSE_CODES THEN CLOSE_CODES[code] ELSE "unknown"

explanation_inclusive(code) ==
  IF 3000 <= code /\ code <= 4000 THEN "registered"
  ELSE IF 4000 <= code /\ code <= 5000 THEN "private use"
  ELSE CloseCodesGet(code)

\* the explanation chosen by format_close
explanation(code) ==
  IF 3000 <= code /\ code < 4000 THEN "registered"
  ELSE IF 4000 <= code /\ code < 5000 THEN "private use"
  ELSE CloseCodesGet(code)

format_close_always_reason(code, reason) ==
  "code = " \o FormatInt(code) \o " (" \o explanation(code) \o "), "
    \o "reason = " \o reason

format_close(code, reason) ==
  LET result == "code = " \o FormatInt(code) \o " (" \o explanation(code)
                  \o "), "
  IN  IF reason # "" THEN result \o "reason = " \o reason
      ELSE result \o "no reason"

(***************************************************************************)
(* exceptions.py: the exception classes used by the connection.            *)
(***************************************************************************)
\* direct base class of each exception class
BaseClass ==
  [c \in {"ConnectionClosed", "InvalidState", "PayloadTooBig",
          "WebSocketProtocolError", "Exception"} |->
    CASE c = "ConnectionClosed" -> "InvalidState"
      [] c = "InvalidState" -> "Exception"
      [] c = "PayloadTooBig" -> "Exception"
      [] c = "WebSocketProtocolError" -> "Exception"
      [] c = "Exception" -> "Exception"]

\* isinstance(exc, cls): cls is exc's class or one of its bases
RECURSIVE IsSubclass(_, _)
IsSubclass(c, cls) ==
  IF c = cls THEN TRUE
  ELSE IF c = "Exception" THEN FALSE
  ELSE IsSubclass(BaseClass[c], cls)

ConnectionClosed_no_reason(code, reason) ==
  [cls |-> "ConnectionClosed", code |-> code, reason |-> "",
   message |-> "WebSocket connection is closed: " \o format_close(code, "")]

ConnectionClosed(code, reason) ==
  [cls |-> "ConnectionClosed", code |-> code, reason |-> reason,
   message |-> "WebSocket connection is closed: "
                 \o format_close(code, reason)]

InvalidState == [cls |-> "InvalidState"]
PayloadTooBig == [cls |-> "PayloadTooBig"]
WebSocketProtocolError == [cls |-> "WebSocketProtocolError"]

(***************************************************************************)
(* The connection: state machine, send() and recv().                       *)
(***************************************************************************)
Pair(code, reason) == [code |-> code, reason |-> reason]

\* the history of states after a step that leaves the connection in s
Enter(s) == IF s = state THEN visited ELSE Append(visited, s)

\* the closed-connection error of the current connection
ClosedError == ConnectionClosed(close.code, close.reason)

\* the possible results of one recv() call in the current state
RecvResults ==
  IF state = "OPEN"
  THEN (IF inbox # <<>>
        THEN {[kind |-> "msg", ret |-> Head(inbox), exc |-> None,
               state |-> state, close |-> close, inbox |-> Tail(inbox)]}
        ELSE {})
       \cup
       {[kind |-> "exc", ret |-> "", exc |-> PayloadTooBig,
         state |-> "CLOSING", close |-> Pair(1009, ""), inbox |-> inbox],
        [kind |-> "exc", ret |-> "", exc |-> WebSocketProtocolError,
         state |-> "CLOSING", close |-> Pair(1002, ""), inbox |-> inbox],
        [kind |-> "exc", ret |-> "", exc |-> InvalidState,
         state |-> state, close |-> close, inbox |-> inbox]}
  ELSE {[kind |-> "exc", ret |-> "", exc |-> ClosedError,
         state |-> state, close |-> close, inbox |-> inbox]}

\* the outcome of one send() call in the current state
SendResult == IF state = "OPEN" THEN None ELSE ClosedError

\* the peer delivers a message
Deliver(m) ==
  /\ state = "OPEN"
  /\ delivered < MaxMsgs
  /\ inbox' = Append(inbox, m)
  /\ delivered' = delivered + 1
  /\ UNCHANGED <<state, close, visited, last, fmt, abort>>
  /\ UNCHANGED iter_vars

CloseLocal_any_state(code, reason) ==
  /\ state' = "CLOSING"
  /\ close' = Pair(code, reason)
  /\ visited' = Append(visited, "CLOSING")
  /\ UNCHANGED <<inbox, delivered, last, fmt, abort>>
  /\ UNCHANGED iter_vars

\* close(code, reason): the local close frame is sent
CloseLocal(code, reason) ==
  /\ state = "OPEN"
  /\ state' = "CLOSING"
  /\ close' = Pair(code, reason)
  /\ visited' = Enter("CLOSING")
  /\ UNCHANGED <<inbox, delivered, last, fmt, abort>>
  /\ UNCHANGED iter_vars

\* the peer's close frame is received, carrying a code and a reason
CloseRemote(code, reason) ==
  /\ state = "OPEN"
  /\ state' = "CLOSING"
  /\ close' = Pair(code, reason)
  /\ visited' = Enter("CLOSING")
  /\ UNCHANGED <<inbox, delivered, last, fmt, abort>>
  /\ UNCHANGED iter_vars

\* the peer's close frame is received without a code
CloseRemoteNoCode ==
  /\ state = "OPEN"
  /\ state' = "CLOSING"
  /\ close' = Pair(1005, "")
  /\ visited' = Enter("CLOSING")
  /\ UNCHANGED <<inbox, delivered, last, fmt, abort>>
  /\ UNCHANGED iter_vars

\* the closing handshake completes, or the transport drops while closing
CloseComplete ==
  /\ state = "CLOSING"
  /\ state' = "CLOSED"
  /\ visited' = Enter("CLOSED")
  /\ UNCHANGED <<close, inbox, delivered, last, fmt, abort>>
  /\ UNCHANGED iter_vars

\* the wait for the peer's closing handshake times out
CloseTimeout ==
  /\ state = "CLOSING"
  /\ state' = "CLOSED"
  /\ close' = Pair(1006, "")
  /\ visited' = Enter("CLOSED")
  /\ UNCHANGED <<inbox, delivered, last, fmt, abort>>
  /\ UNCHANGED iter_vars

\* unrecoverable transport fault (1006) or TLS failure (1015)
Fault(code) ==
  /\ state # "CLOSED"
  /\ state' = "CLOSED"
  /\ close' = IF close = None THEN Pair(code, "") ELSE close
  /\ visited' = Enter("CLOSED")
  /\ UNCHANGED <<inbox, delivered, last, fmt, abort>>
  /\ UNCHANGED iter_vars

\* a direct send() call
Send ==
  /\ last' = [op |-> "send", at |-> state, exc |-> SendResult]
  /\ UNCHANGED <<state, close, inbox, delivered, visited, fmt, abort>>
  /\ UNCHANGED iter_vars

\* a direct recv() call
Recv ==
  /\ \E r \in RecvResults :
       /\ last' = [op |-> "recv", at |-> state, exc |-> r.exc]
       /\ state' = r.state
       /\ close' = r.close
       /\ inbox' = r.inbox
       /\ visited' = Enter(r.state)
  /\ UNCHANGED <<delivered, fmt, abort>>
  /\ UNCHANGED iter_vars

(***************************************************************************)
(* py36/protocol.py: the message iterator __aiter__.                       *)
(***************************************************************************)
aiter_yield_newest_first(ys, m) == <<m>> \o ys

\* yield await self.recv(): the message goes to the consumer
aiter_yield(ys, m) == Append(ys, m)

aiter_except_only_1000(exc) ==
  IF IsSubclass(exc.cls, "ConnectionClosed")
  THEN IF exc.code = 1000
       THEN [pc |-> "done", exc |-> None]
       ELSE [pc |-> "raised", exc |-> exc]
  ELSE [pc |-> "raised", exc |-> exc]

aiter_except_retry(exc) ==
  IF IsSubclass(exc.cls, "ConnectionClosed")
  THEN IF exc.code = 1000 \/ exc.code = 1001
       THEN [pc |-> "done", exc |-> None]
       ELSE [pc |-> "raised", exc |-> exc]
  ELSE IF exc.cls = "InvalidState"
       THEN [pc |-> "running", exc |-> None]
       ELSE [pc |-> "raised", exc |-> exc]

\* the try/except around the loop: where an exception of recv() leaves the
\* generator, and what its consumer sees
aiter_except(exc) ==
  IF IsSubclass(exc.cls, "ConnectionClosed")
  THEN IF exc.code = 1000 \/ exc.code = 1001
       THEN [pc |-> "done", exc |-> None]
       ELSE [pc |-> "raised", exc |-> exc]
  ELSE [pc |-> "raised", exc |-> exc]

\* one __anext__ of the running generator: await recv(), then yield the
\* message or leave the loop through the except clause
Anext ==
  /\ it_pc = "running"
  /\ recv_calls < MaxMsgs + 2
  /\ \E r \in RecvResults :
       /\ recv_calls' = recv_calls + 1
       /\ state' = r.state
       /\ close' = r.close
       /\ inbox' = r.inbox
       /\ visited' = Enter(r.state)
       /\ IF r.kind = "msg"
          THEN /\ yielded' = aiter_yield(yielded, r.ret)
               /\ recv_log' = Append(recv_log, r.ret)
               /\ UNCHANGED <<it_pc, it_exc, recv_exc>>
          ELSE /\ recv_exc' = r.exc
               /\ it_pc' = aiter_except(r.exc).pc
               /\ it_exc' = aiter_except(r.exc).exc
               /\ UNCHANGED <<yielded, recv_log>>
  /\ UNCHANGED <<delivered, last, extra_next, fmt, abort>>

\* __anext__ of the finished generator: StopAsyncIteration, recv() not called
AnextFinished ==
  /\ it_pc \in {"done", "raised"}
  /\ extra_next < MaxExtraNext
  /\ extra_next' = extra_next + 1
  /\ UNCHANGED <<it_pc, yielded, recv_log, recv_calls, recv_exc, it_exc>>
  /\ UNCHANGED <<last, fmt, abort>>
  /\ UNCHANGED conn_vars

(***************************************************************************)
(* The connection with one iterator consuming it.                          *)
(***************************************************************************)
NoFmt == [code |-> 0, reason |-> "", done |-> FALSE, out |-> ""]
NoAbort == [status |-> 0, headers |-> <<>>, body |-> <<>>, omitted |-> FALSE,
            done |-> FALSE, exc |-> None]

Init ==
  /\ state = "OPEN"
  /\ close = None
  /\ inbox = <<>>
  /\ delivered = 0
  /\ visited = <<"OPEN">>
  /\ last = [op |-> "none", at |-> "OPEN", exc |-> None]
  /\ it_pc = "running"
  /\ yielded = <<>>
  /\ recv_log = <<>>
  /\ recv_calls = 0
  /\ recv_exc = None
  /\ it_exc = None
  /\ extra_next = 0
  /\ fmt = NoFmt
  /\ abort = NoAbort

Next ==
  \/ \E m \in Messages : Deliver(m)
  \/ \E c \in WireCodes, r \in Reasons : CloseLocal(c, r)
  \/ \E c \in WireCodes, r \in Reasons : CloseRemote(c, r)
  \/ CloseRemoteNoCode
  \/ CloseComplete
  \/ CloseTimeout
  \/ \E c \in {1006, 1015} : Fault(c)
  \/ Send
  \/ Recv
  \/ Anext
  \/ AnextFinished

Spec == Init /\ [][Next]_vars

(***************************************************************************)
(* format_close applied to every code of 0..MaxCode and every reason.      *)
(***************************************************************************)
ConnIdle ==
  /\ state = "OPEN"
  /\ close = None
  /\ inbox = <<>>
  /\ delivered = 0
  /\ visited = <<"OPEN">>
  /\ last = [op |-> "none", at |-> "OPEN", exc |-> None]
  /\ it_pc = "running"
  /\ yielded = <<>>
  /\ recv_log = <<>>
  /\ recv_calls = 0
  /\ recv_exc = None
  /\ it_exc = None
  /\ extra_next = 0

InitFormat ==
  /\ ConnIdle
  /\ fmt \in {[code |-> c, reason |-> r, done |-> FALSE, out |-> ""] :
                c \in 0..MaxCode, r \in FormatReasons}
  /\ abort = NoAbort

CallFormatClose ==
  /\ ~fmt.done
  /\ fmt' = [fmt EXCEPT !.done = TRUE,
                        !.out = format_close(fmt.code, fmt.reason)]
  /\ UNCHANGED <<last, abort>>
  /\ UNCHANGED conn_vars
  /\ UNCHANGED iter_vars

NextFormat == CallFormatClose

SpecFormat == InitFormat /\ [][NextFormat]_vars

(***************************************************************************)
(* exceptions.py: AbortHandshake, over the header container of http.py.    *)
(***************************************************************************)
SeqsUpTo(S, n) == UNION {[1..k -> S] : k \in 0..n}

HeaderNames == {"Content-Type", "content-type", "X-Test"}
HeaderValues == {"text/plain"}
Bytes == {0, 110}
Statuses == {400, 404, 503}

\* Headers(headers): the container keeps every entry, in insertion order
Headers(headers) == headers

\* len(Headers): the number of entries held
HeadersLen(h) == Len(h)

\* the default of the body parameter, b""
DefaultBody == <<>>

AbortHandshake_swapped(status, headers, body) ==
  [cls |-> "AbortHandshake", status |-> status,
   headers |-> Headers(headers), body |-> body,
   message |-> "HTTP " \o FormatInt(status) \o ", "
                 \o FormatInt(Len(body)) \o " headers, "
                 \o FormatInt(HeadersLen(Headers(headers))) \o " bytes"]

AbortHandshake(status, headers, body) ==
  [cls |-> "AbortHandshake", status |-> status,
   headers |-> Headers(headers), body |-> body,
   message |-> "HTTP " \o FormatInt(status) \o ", "
                 \o FormatInt(HeadersLen(Headers(headers))) \o " headers, "
                 \o FormatInt(Len(body)) \o " bytes"]

InitAbort ==
  /\ ConnIdle
  /\ fmt = NoFmt
  /\ abort \in
       {[status |-> st, headers |-> h, body |-> b, omitted |-> FALSE,
         done |-> FALSE, exc |-> None] :
          st \in Statuses,
          h \in SeqsUpTo(HeaderNames \X HeaderValues, MaxHeaders),
          b \in SeqsUpTo(Bytes, MaxBody)}
       \cup
       {[status |-> st, headers |-> h, body |-> <<>>, omitted |-> TRUE,
         done |-> FALSE, exc |-> None] :
          st \in Statuses,
          h \in SeqsUpTo(HeaderNames \X HeaderValues, MaxHeaders)}

RaiseAbortHandshake ==
  /\ ~abort.done
  /\ abort' = [abort EXCEPT
       !.done = TRUE,
       !.exc = AbortHandshake(abort.status, abort.headers,
                              IF abort.omitted THEN DefaultBody
                              ELSE abort.body)]
  /\ UNCHANGED <<last, fmt>>
  /\ UNCHANGED conn_vars
  /\ UNCHANGED iter_vars

NextAbort == RaiseAbortHandshake

SpecAbort == InitAbort /\ [][NextAbort]_vars

(***************************************************************************)
(* Properties.                                                             *)
(***************************************************************************)
NormalCodes == {1000, 1001}

C2_YieldsAllThenEnds ==
  /\ yielded = recv_log
  /\ (recv_exc.cls = "ConnectionClosed" /\ recv_exc.code = 1000) =>
       (it_pc = "done" /\ it_exc = None)
  /\ (recv_exc.cls = "ConnectionClosed" /\ recv_exc.code = 1002) =>
       (it_pc = "raised" /\ it_exc = recv_exc)

C2_Witness ==
  /\ recv_exc.cls = "ConnectionClosed"
  /\ recv_exc.code = 1002
  /\ it_pc = "raised"
  /\ yielded = <<"m1", "m2", "m1">>

\* C3: the iteration exits normally when the connection is closed with code
\* 1000 and raises an exception for every other close code.
C3_NormalEndOnlyOn1000 ==
  recv_exc.cls = "ConnectionClosed" =>
    ((it_pc = "done") <=> (recv_exc.code = 1000))

\* C4: once the connection is CLOSED its (code, reason) never changes, and
\* every send() or recv() made from then on, directly or by the iterator,
\* fails with a ConnectionClosed carrying exactly that code and reason.
C4_ClosedErrorIsFinalPair ==
  [][state = "CLOSED" =>
       /\ state' = "CLOSED"
       /\ close' = close
       /\ last' # last =>
            /\ last'.at = "CLOSED"
            /\ last'.exc.cls = "ConnectionClosed"
            /\ last'.exc.code = close.code
            /\ last'.exc.reason = close.reason
       /\ recv_calls' # recv_calls =>
            /\ recv_exc'.cls = "ConnectionClosed"
            /\ recv_exc'.code = close.code
            /\ recv_exc'.reason = close.reason]_vars

C4_Witness ==
  /\ state = "CLOSED"
  /\ close.reason = "bye"
  /\ last.at = "CLOSED"
  /\ last.op = "send"
  /\ last.exc.cls = "ConnectionClosed"
  /\ recv_exc.cls = "ConnectionClosed"

Rank(s) == CASE s = "OPEN" -> 0 [] s = "CLOSING" -> 1 [] s = "CLOSED" -> 2

\* C5: the connection starts OPEN and its state only moves forward in the
\* order OPEN, CLOSING, CLOSED: the states entered are strictly increasing,
\* so none is revisited and CLOSED is never left.
C5_StateMonotonic ==
  /\ visited[1] = "OPEN"
  /\ visited[Len(visited)] = state
  /\ \A i \in 1..(Len(visited) - 1) : Rank(visited[i]) < Rank(visited[i + 1])

C5_Witness == visited = <<"OPEN", "CLOSING", "CLOSED">>

Rendering(e) ==
  "code = " \o ToString(fmt.code) \o " (" \o e \o "), "
    \o (IF fmt.reason = "" THEN "no reason" ELSE "reason = " \o fmt.reason)

\* C6: codes 3000..3999 are explained as "registered" and codes 4000..4999
\* as "private use", whatever the reason; 2999 and 5000 are neither.
C6_RegisteredAndPrivateRanges ==
  fmt.done =>
    /\ (3000 <= fmt.code /\ fmt.code <= 3999) =>
         fmt.out = Rendering("registered")
    /\ (4000 <= fmt.code /\ fmt.code <= 4999) =>
         fmt.out = Rendering("private use")
    /\ fmt.code \in {2999, 5000} => fmt.out = Rendering("unknown")

C6_Witness ==
  /\ fmt.done
  /\ fmt.code = 4000
  /\ fmt.out = "code = 4000 (private use), reason = bye"

\* C7: outside 3000..4999 a code of the table is explained by its fixed
\* string, and every other code, 1004 included, as "unknown".
C7_TableOrUnknown ==
  (fmt.done /\ (fmt.code < 3000 \/ fmt.code > 4999)) =>
    fmt.out = Rendering(
      CASE fmt.code = 1000 -> "OK"
        [] fmt.code = 1001 -> "going away"
        [] fmt.code = 1002 -> "protocol error"
        [] fmt.code = 1003 -> "unsupported type"
        [] fmt.code = 1005 -> "no status code [internal]"
        [] fmt.code = 1006 -> "connection closed abnormally [internal]"
        [] fmt.code = 1007 -> "invalid data"
        [] fmt.code = 1008 -> "policy violation"
        [] fmt.code = 1009 -> "message too big"
        [] fmt.code = 1010 -> "extension required"
        [] fmt.code = 1011 -> "unexpected error"
        [] fmt.code = 1015 -> "TLS failure [internal]"
        [] OTHER -> "unknown")

C7_Witness ==
  /\ fmt.done
  /\ fmt.code = 1004
  /\ fmt.out = "code = 1004 (unknown), no reason"

Contains(s, sub) ==
  \E i \in 1..(Len(s) - Len(sub) + 1) : SubSeq(s, i, i + Len(sub) - 1) = sub

\* C8: format_close(N, reason) is "code = N (explanation), " followed by
\* "no reason" exactly when the reason is empty and by "reason = " and the
\* reason itself otherwise; format_close(1000, "") is
\* "code = 1000 (OK), no reason" and format_close(1009, "too big") contains
\* "message too big" and "reason = too big".
C8_FormatContract ==
  fmt.done =>
    /\ \E n \in 8..(Len(fmt.out) - 3) :
         /\ SubSeq(fmt.out, 1, 7) = "code = "
         /\ SubSeq(fmt.out, 8, 7 + Len(ToString(fmt.code)) + 2)
              = ToString(fmt.code) \o " ("
         /\ SubSeq(fmt.out, n, n + 2) = "), "
         /\ SubSeq(fmt.out, n + 3, Len(fmt.out))
              = (IF fmt.reason = "" THEN "no reason"
                 ELSE "reason = " \o fmt.reason)
    /\ (SubSeq(fmt.out, Len(fmt.out) - 8, Len(fmt.out)) = "no reason")
         <=> (fmt.reason = "")
    /\ (fmt.code = 1000 /\ fmt.reason = "") =>
         fmt.out = "code = 1000 (OK), no reason"
    /\ (fmt.code = 1009 /\ fmt.reason = "too big") =>
         /\ Contains(fmt.out, "message too big")
         /\ Contains(fmt.out, "reason = too big")

C8_Witness ==
  /\ fmt.done
  /\ fmt.code = 1009
  /\ fmt.reason = "too big"
  /\ fmt.out = "code = 1009 (message too big), reason = too big"

====
